---- MODULE Spec2Model ----
(***************************************************************************)
(* Model of test-cpu-load.py: the CPU load test container of               *)
(* container-census.  main() prints a banner and then loops forever over   *)
(* three timed phases (busy work, sleep, sleep), printing and flushing a   *)
(* status line before each phase.  cpu_intensive_work(d) spins on batches  *)
(* of arithmetic until the wall clock reaches a deadline fixed at entry.   *)
(*                                                                         *)
(* The clock is real-valued in the program; the model keeps of a reading   *)
(* t its whole seconds, now = floor(t), and, while cpu_intensive_work      *)
(* runs, one bit on its sub-second part: late is TRUE when the fraction of *)
(* t has reached the fraction of end_time (they are equal at entry, since  *)
(* the duration is a whole number).  With these two the comparison         *)
(* time.time() < end_time is decided exactly.  Every test of the guard     *)
(* takes its own reading: between the reading of line 12 and the first     *)
(* test of line 14, and between one test and the next (one batch), up to   *)
(* MaxBatch seconds pass, so the process may be held there and the         *)
(* whole-second reading may also stay the same over any number of batches. *)
(* time.sleep(s) lasts s seconds plus at most MaxJitter seconds, which     *)
(* stand for the wake-up latency and the statements of main() around it;   *)
(* main() itself never reads the clock.                                    *)
(***************************************************************************)
EXTENDS Integers, Sequences, FiniteSets

VARIABLES
    pc,         \* the statement the interpreter executes next
    ret,        \* where cpu_intensive_work returns to
    cycle,      \* main: cycle
    duration,   \* cpu_intensive_work: duration_seconds
    end_time,   \* cpu_intensive_work: end_time
    batches,    \* cpu_intensive_work: completed runs of the for-loop (lines 16-17)
                \* in this call, counted up to BatchCap ("BatchCap or more")
    now,        \* the clock in whole seconds (floor); inside cpu_intensive_work,
                \* what the latest test of the guard read
    late,       \* sub-second part of the clock >= sub-second part of end_time
                \* (meaningful from entry to return of cpu_intensive_work)
    stdout,     \* every print() made so far, in order
    flushed,    \* how many entries of stdout the last sys.stdout.flush() covered
    entry_at,   \* clock reading of line 12 in the latest call of cpu_intensive_work
    low_at,     \* clock reading when the LOW line was last printed
    idle_at     \* clock reading when the IDLE line was last printed

vars == <<pc, ret, cycle, duration, end_time, batches, now, late, stdout, flushed,
          entry_at, low_at, idle_at>>

(* ------------------------------ bounds -------------------------------- *)

\* The clock never passes MaxTime: a batch or a sleep that would is not taken.
MaxTime == 50
\* From one reading of the clock in cpu_intensive_work to the next (a batch of
\* the for-loop, or lines 12-14 at entry) at most MaxBatch seconds pass.
MaxBatch == 5
\* The same on a machine that gets from one reading to the next within
\* NominalBatch seconds.
NominalBatch == 1
\* The count of batches is kept exactly up to BatchCap.
BatchCap == 3
\* time.sleep(s) returns between s and s + MaxJitter seconds after the call.
MaxJitter == 1
\* Durations and start times tried when cpu_intensive_work is called directly.
MaxDuration == 6
MaxStart == 3

(* ------------------------- program constants -------------------------- *)

\* cpu_intensive_work(5)
WorkSeconds == 5
\* time.sleep(5) of the low CPU phase
LowSleepSeconds == 5
\* time.sleep(5) of the idle phase
IdleSleepSeconds == 5

\* The texts printed, without their emoji; the "[Cycle n] " prefix of a status
\* line is the cycle field of StatusLine, and the newline that opens the HIGH
\* line belongs to the same print() call.
BannerText == "CPU Load Test Container Started"
RuleText == "=================================================="
HighText == "HIGH CPU - Working hard..."
LowText == "LOW CPU - Resting..."
IdleText == "IDLE - Sleeping..."

(* --------------------------- pure helpers ----------------------------- *)

\* print(text): a line that carries no cycle number.
PlainLine(text) == [status |-> FALSE, cycle |-> 0, text |-> text]

\* Variant: the line carries the counter less one.
StatusLineZeroBased(c, text) == [status |-> TRUE, cycle |-> c - 1, text |-> text]
\* print(f"[Cycle {cycle}] text"): a status line carrying the cycle number.
StatusLine(c, text) == [status |-> TRUE, cycle |-> c, text |-> text]

\* Variant: the counter advances by two.
NextCycleSkip(c) == c + 2
\* cycle += 1
NextCycle(c) == c + 1

\* end_time = time.time() + duration_seconds
Deadline(t, d) == t + d

\* Whole seconds of the reading (t, l) on the grid whose seconds begin at the
\* sub-second part of end_time: floor(reading - fraction of end_time), up to
\* the whole part of that fraction.
Shifted(t, l) == IF l THEN t ELSE t - 1

\* Variants of the guard: inclusive comparison, leaving one second early,
\* and a deadline recomputed at every test.
WorkGuardInclusive(t, l, e) == Shifted(t, l) <= e
WorkGuardEarly(t, l, e) == Shifted(t, l) + 1 < e
WorkGuardMoving(t, l, e) == Shifted(t, l) < Shifted(t, l) + duration
\* while time.time() < end_time, end_time being a whole number of seconds
\* past the reading taken at entry
WorkGuard(t, l, e) == Shifted(t, l) < e

\* The readings the clock can show once at most span seconds have passed
\* since it showed (t, l): not earlier than (t, l), and at most
\* span whole seconds later on either grid.
Later(t, l, span) ==
    {r \in (t..(t + span)) \X BOOLEAN :
        /\ r[1] > t \/ (l => r[2])
        /\ Shifted(r[1], r[2]) - Shifted(t, l) <= span}

\* One more batch counted, up to BatchCap.
CountUp(n) == IF n < BatchCap THEN n + 1 ELSE n

\* Variant: the flush leaves the buffer as it was.
FlushNothing(out) == flushed
\* sys.stdout.flush(): everything printed so far has left the buffer.
Flush(out) == Len(out)

\* Variants: a sleep that returns at once, and one five times too long.
SleepNoWait(t, secs, jitter) == t + jitter
SleepLong(t, secs, jitter) == t + (5 * secs) + jitter
\* time.sleep(secs) called at time t returns at t + secs + jitter.
WakeTime(t, secs, jitter) == t + secs + jitter

(* ------------------------------- Init --------------------------------- *)

Init ==
    /\ pc = "banner"
    /\ ret = "none"
    /\ cycle = 0
    /\ duration = 0
    /\ end_time = 0
    /\ batches = 0
    /\ now = 0
    /\ late = TRUE
    /\ stdout = << >>
    /\ flushed = 0
    /\ entry_at = 0
    /\ low_at = 0
    /\ idle_at = 0

\* cpu_intensive_work(d) called directly, for any d and any start time.
InitWork ==
    /\ pc = "work_entry"
    /\ ret = "returned"
    /\ cycle = 0
    /\ duration \in 0..MaxDuration
    /\ end_time = 0
    /\ batches = 0
    /\ now \in 0..MaxStart
    /\ late = TRUE
    /\ stdout = << >>
    /\ flushed = 0
    /\ entry_at = 0
    /\ low_at = 0
    /\ idle_at = 0

(* ------------------------ cpu_intensive_work --------------------------- *)

workVars == <<cycle, stdout, flushed, low_at, idle_at>>

\* lines 12-13: end_time = time.time() + duration_seconds; result = 0, and
\* the reading the first test of line 14 takes, at most span seconds after
\* the reading of line 12.
WorkEntryWithin(span) ==
    /\ pc = "work_entry"
    /\ end_time' = Deadline(now, duration)
    /\ batches' = 0
    /\ entry_at' = now
    /\ \E r \in Later(now, TRUE, span) :
          /\ r[1] <= MaxTime
          /\ now' = r[1]
          /\ late' = r[2]
    /\ pc' = "work_loop"
    /\ UNCHANGED <<ret, duration>>
    /\ UNCHANGED workVars

\* lines 12-14 on any machine of the model.
WorkEntry == WorkEntryWithin(MaxBatch)

\* lines 12-14 on a machine that gets from one reading to the next within
\* NominalBatch seconds.
WorkEntryNominal == WorkEntryWithin(NominalBatch)

\* Variant: two batches run between two tests of the guard.
WorkBatchDouble ==
    /\ pc = "work_loop"
    /\ WorkGuard(now, late, end_time)
    /\ \E r \in Later(now, late, 2 * MaxBatch) :
          /\ r[1] <= MaxTime
          /\ now' = r[1]
          /\ late' = r[2]
    /\ batches' = CountUp(CountUp(batches))
    /\ UNCHANGED <<pc, ret, duration, end_time, entry_at>>
    /\ UNCHANGED workVars

\* lines 14-17: the guard holds on the latest reading, one batch of the
\* for-loop runs, and the next test reads the clock at most span seconds
\* after the latest reading.
WorkBatchWithin(span) ==
    /\ pc = "work_loop"
    /\ WorkGuard(now, late, end_time)
    /\ \E r \in Later(now, late, span) :
          /\ r[1] <= MaxTime
          /\ now' = r[1]
          /\ late' = r[2]
    /\ batches' = CountUp(batches)
    /\ UNCHANGED <<pc, ret, duration, end_time, entry_at>>
    /\ UNCHANGED workVars

\* lines 14-17 on any machine of the model.
WorkBatch == WorkBatchWithin(MaxBatch)

\* lines 14-17 on a machine that runs a batch within NominalBatch seconds.
WorkBatchNominal == WorkBatchWithin(NominalBatch)

\* lines 14, 18: the guard fails on the latest reading, the function returns.
WorkReturn ==
    /\ pc = "work_loop"
    /\ ~WorkGuard(now, late, end_time)
    /\ pc' = ret
    /\ UNCHANGED <<ret, duration, end_time, batches, now, late, entry_at>>
    /\ UNCHANGED workVars

(* ------------------------------- main ---------------------------------- *)

mainLocals == <<ret, duration, end_time, batches, late, entry_at>>

\* A print() that is not followed by anything else in the same step.
Emit(line, next) ==
    /\ stdout' = Append(stdout, line)
    /\ pc' = next

\* line 21
PrintBanner ==
    /\ pc = "banner"
    /\ Emit(PlainLine(BannerText), "rule")
    /\ UNCHANGED <<cycle, now, flushed, low_at, idle_at>>
    /\ UNCHANGED mainLocals

\* line 22
PrintRule ==
    /\ pc = "rule"
    /\ Emit(PlainLine(RuleText), "init")
    /\ UNCHANGED <<cycle, now, flushed, low_at, idle_at>>
    /\ UNCHANGED mainLocals

\* line 23
InitCycle ==
    /\ pc = "init"
    /\ cycle' = 0
    /\ pc' = "loop"
    /\ UNCHANGED <<now, stdout, flushed, low_at, idle_at>>
    /\ UNCHANGED mainLocals

\* lines 25-26
LoopHead ==
    /\ pc = "loop"
    /\ cycle' = NextCycle(cycle)
    /\ pc' = "high_print"
    /\ UNCHANGED <<now, stdout, flushed, low_at, idle_at>>
    /\ UNCHANGED mainLocals

\* line 29
PrintHigh ==
    /\ pc = "high_print"
    /\ Emit(StatusLine(cycle, HighText), "high_flush")
    /\ UNCHANGED <<cycle, now, flushed, low_at, idle_at>>
    /\ UNCHANGED mainLocals

\* line 30
FlushHigh ==
    /\ pc = "high_flush"
    /\ flushed' = Flush(stdout)
    /\ pc' = "high_call"
    /\ UNCHANGED <<cycle, now, stdout, low_at, idle_at>>
    /\ UNCHANGED mainLocals

\* line 31: the call binds duration_seconds
CallWork ==
    /\ pc = "high_call"
    /\ duration' = WorkSeconds
    /\ ret' = "low_print"
    /\ pc' = "work_entry"
    /\ UNCHANGED <<cycle, now, stdout, flushed, low_at, idle_at>>
    /\ UNCHANGED <<end_time, batches, late, entry_at>>

\* Variant: the LOW line is not printed.
PrintLowSkipped ==
    /\ pc = "low_print"
    /\ pc' = "low_flush"
    /\ low_at' = now
    /\ UNCHANGED <<cycle, now, stdout, flushed, idle_at>>
    /\ UNCHANGED mainLocals

\* line 34
PrintLow ==
    /\ pc = "low_print"
    /\ Emit(StatusLine(cycle, LowText), "low_flush")
    /\ low_at' = now
    /\ UNCHANGED <<cycle, now, flushed, idle_at>>
    /\ UNCHANGED mainLocals

\* line 35
FlushLow ==
    /\ pc = "low_flush"
    /\ flushed' = Flush(stdout)
    /\ pc' = "low_sleep"
    /\ UNCHANGED <<cycle, now, stdout, low_at, idle_at>>
    /\ UNCHANGED mainLocals

\* line 36
SleepLow ==
    /\ pc = "low_sleep"
    /\ \E j \in 0..MaxJitter :
          /\ WakeTime(now, LowSleepSeconds, j) <= MaxTime
          /\ now' = WakeTime(now, LowSleepSeconds, j)
    /\ pc' = "idle_print"
    /\ UNCHANGED <<cycle, stdout, flushed, low_at, idle_at>>
    /\ UNCHANGED mainLocals

\* line 39
PrintIdle ==
    /\ pc = "idle_print"
    /\ Emit(StatusLine(cycle, IdleText), "idle_flush")
    /\ idle_at' = now
    /\ UNCHANGED <<cycle, now, flushed, low_at>>
    /\ UNCHANGED mainLocals

\* line 40
FlushIdle ==
    /\ pc = "idle_flush"
    /\ flushed' = Flush(stdout)
    /\ pc' = "idle_sleep"
    /\ UNCHANGED <<cycle, now, stdout, low_at, idle_at>>
    /\ UNCHANGED mainLocals

\* line 41, then back to the loop head
SleepIdle ==
    /\ pc = "idle_sleep"
    /\ \E j \in 0..MaxJitter :
          /\ WakeTime(now, IdleSleepSeconds, j) <= MaxTime
          /\ now' = WakeTime(now, IdleSleepSeconds, j)
    /\ pc' = "loop"
    /\ UNCHANGED <<cycle, stdout, flushed, low_at, idle_at>>
    /\ UNCHANGED mainLocals

(* --------------------------- specifications ---------------------------- *)

Next ==
    \/ PrintBanner
    \/ PrintRule
    \/ InitCycle
    \/ LoopHead
    \/ PrintHigh
    \/ FlushHigh
    \/ CallWork
    \/ WorkEntry
    \/ WorkBatch
    \/ WorkReturn
    \/ PrintLow
    \/ FlushLow
    \/ SleepLow
    \/ PrintIdle
    \/ FlushIdle
    \/ SleepIdle

\* The whole program.
Spec == Init /\ [][Next]_vars

\* The program on a processor that keeps running it and with a clock that
\* keeps advancing: a step that changes the state is eventually taken.
SpecLive == Init /\ [][Next]_vars /\ WF_vars(Next)

NextWork == WorkEntry \/ WorkBatch \/ WorkReturn

NextNominal ==
    \/ PrintBanner
    \/ PrintRule
    \/ InitCycle
    \/ LoopHead
    \/ PrintHigh
    \/ FlushHigh
    \/ CallWork
    \/ WorkEntryNominal
    \/ WorkBatchNominal
    \/ WorkReturn
    \/ PrintLow
    \/ FlushLow
    \/ SleepLow
    \/ PrintIdle
    \/ FlushIdle
    \/ SleepIdle

\* The whole program on a machine that runs a batch within NominalBatch
\* seconds: the busy phase then lasts its 5 seconds and less than
\* NominalBatch more.
SpecNominal == Init /\ [][NextNominal]_vars

\* cpu_intensive_work(d) on its own.
SpecWork == InitWork /\ [][NextWork]_vars

(* ------------------------- derived observations ------------------------ *)

\* The status lines printed so far, in order.
StatusLines == SelectSeq(stdout, LAMBDA l : l.status)

PhaseOrder == <<HighText, LowText, IdleText>>

PhaseOf(text) ==
    IF text = HighText THEN "HIGH_CPU"
    ELSE IF text = LowText THEN "LOW_CPU_RESTING" ELSE "IDLE"

\* The phase the last status line announced; HIGH_CPU before any line.
Phase ==
    IF Len(StatusLines) = 0 THEN "HIGH_CPU"
    ELSE PhaseOf(StatusLines[Len(StatusLines)].text)

\* Statements at which time may pass or is about to: the call, the busy loop, the sleeps.
TimedPcs == {"high_call", "work_entry", "work_loop", "low_sleep", "idle_sleep"}

\* Statements of cpu_intensive_work.
BusyPcs == {"work_entry", "work_loop"}

\* From the LOW line to the IDLE line, and from the IDLE line to the next HIGH line.
RestPcs == {"low_flush", "low_sleep", "idle_print",
            "idle_flush", "idle_sleep", "loop", "high_print"}

\* The longest one cycle can take in this model.
WorstCycle ==
    WorkSeconds + MaxBatch + LowSleepSeconds + IdleSleepSeconds + (2 * MaxJitter)

\* Cycles that are sure to complete before the clock reaches MaxTime.
LiveCycles == MaxTime \div WorstCycle

\* The clock bound alone keeps the program from taking its next step.
ClockExhausted ==
    \/ pc = "work_loop" /\ now = MaxTime
    \/ pc = "low_sleep" /\ WakeTime(now, LowSleepSeconds, 0) > MaxTime
    \/ pc = "idle_sleep" /\ WakeTime(now, IdleSleepSeconds, 0) > MaxTime

(* ------------------------------- claims -------------------------------- *)

\* C1: the cycle counter starts at 0; any step leaves it unchanged or, at the
\* loop head only, adds exactly 1; it is never decremented or reset; and the
\* k-th iteration (the one that prints the k-th HIGH line) runs with counter k.
C1_CounterStepsByOne ==
    /\ cycle = 0
    /\ [][ \/ cycle' = cycle
           \/ pc = "loop" /\ cycle' = cycle + 1 ]_vars
    /\ [](LET highs == Len(SelectSeq(StatusLines, LAMBDA l : l.text = HighText))
          IN  cycle = IF pc = "high_print" THEN highs + 1 ELSE highs)

\* C1 witness: the third iteration has started with counter 3.
C1_Witness == pc = "high_print" /\ cycle = 3

\* C2: every cycle emits exactly three status lines in the order HIGH, LOW,
\* IDLE, none skipped, duplicated or reordered; the HIGH line is out before
\* cpu_intensive_work runs, the LOW line before the first sleep and the IDLE
\* line before the second sleep.
C2_ThreeLinesInOrder ==
    LET s == StatusLines
        n == Len(s)
    IN  /\ \A i \in 1..n : s[i].text = PhaseOrder[((i - 1) % 3) + 1]
        /\ pc \in {"banner", "rule", "init"} => n = 0
        /\ pc = "loop" => n = 3 * cycle
        /\ pc = "high_print" => n = 3 * (cycle - 1)
        /\ pc \in {"high_flush", "high_call", "work_entry", "work_loop", "low_print"}
              => n = 3 * (cycle - 1) + 1
        /\ pc \in {"low_flush", "low_sleep", "idle_print"} => n = 3 * (cycle - 1) + 2
        /\ pc \in {"idle_flush", "idle_sleep"} => n = 3 * cycle

\* C2 witness: the second cycle has completed with six status lines.
C2_Witness == pc = "loop" /\ cycle = 2 /\ Len(StatusLines) = 6

\* C3 as stated: every print is flushed before the next print and before the
\* next timed phase, so at most one print is ever unflushed.
C3_EveryWriteFlushed ==
    /\ Len(stdout) - flushed <= 1
    /\ pc \in TimedPcs => flushed = Len(stdout)

\* C3 amended: every status line is flushed right after it is printed, before
\* the next print and before the next timed phase; the two start-up lines are
\* not flushed one by one but leave the buffer with the first status line,
\* before any timed phase.
C3_StatusWritesFlushed ==
    /\ \A i \in (flushed + 1)..Len(stdout) : stdout[i].status => i = Len(stdout)
    /\ (\E i \in (flushed + 1)..Len(stdout) : stdout[i].status)
          => pc \in {"high_flush", "low_flush", "idle_flush"}
    /\ pc \in TimedPcs => flushed = Len(stdout)
    /\ flushed <= Len(stdout)

\* C3 witness: the first flush has pushed out the banner, the rule and the HIGH line.
C3_Witness == pc = "high_call" /\ cycle = 1 /\ flushed = 3 /\ Len(stdout) = 3

\* C4: when cpu_intensive_work(d) returns, the clock reads at least the
\* reading taken at entry plus d, to the fraction of a second.
C4_ReturnsNoEarlier ==
    pc = "returned" =>
        /\ now >= entry_at + duration
        /\ Shifted(now, late) >= entry_at + duration

\* C4 witness: a call with a positive duration has returned after several batches.
C4_Witness == pc = "returned" /\ duration >= 5 /\ batches >= 3 /\ now = entry_at + duration

\* C5: in cpu_intensive_work(0) the deadline is the reading taken at entry,
\* the guard fails on its first test whatever the clock then reads, and the
\* function returns without having run a batch.
C5_ZeroReturnsAtOnce ==
    duration = 0 =>
        /\ batches = 0
        /\ pc = "work_loop" => (end_time = entry_at /\ ~WorkGuard(now, late, end_time))
        /\ pc \in {"work_loop", "returned"} => Shifted(now, late) >= entry_at

\* C5 witness: a call with duration 0 has returned without a batch, the clock
\* having passed a whole second between the reading at entry and the test.
C5_Witness ==
    pc = "returned" /\ duration = 0 /\ batches = 0 /\ now = entry_at + 1 /\ ~late

\* C9: with every batch taking at most MaxBatch (from the test that starts it
\* to the next test), cpu_intensive_work(d) that ran a batch returns
\* strictly less than d + MaxBatch after the reading taken at entry; one that
\* ran none returns on its first test, with only that clock read behind it;
\* and no batch starts once a test reads the deadline or later.
C9_OverrunUnderOneBatch ==
    /\ [](pc = "returned" =>
            IF batches = 0
            THEN Shifted(now, late) - entry_at <= MaxBatch
            ELSE Shifted(now, late) < entry_at + duration + MaxBatch)
    /\ [][(pc = "work_loop" /\ pc' = "work_loop") => Shifted(now, late) < end_time]_vars

\* C9 witness: a call has overrun its deadline by the most one batch allows.
C9_Witness ==
    pc = "returned" /\ duration > 0 /\ batches > 0
                    /\ Shifted(now, late) = entry_at + duration + MaxBatch - 1

\* C6: the phases follow one another only as HIGH_CPU -> LOW_CPU_RESTING ->
\* IDLE -> HIGH_CPU; there is no terminal state (only the clock bound of the
\* model can stop the program); and on a processor that keeps running, every
\* status line of the cycles that fit before the clock bound is followed by
\* the next one, so cpu_intensive_work returns and HIGH_CPU is entered again.
C6_CyclesForever ==
    /\ Phase = "HIGH_CPU"
    /\ [][Phase' # Phase =>
            <<Phase, Phase'>> \in {<<"HIGH_CPU", "LOW_CPU_RESTING">>,
                                   <<"LOW_CPU_RESTING", "IDLE">>,
                                   <<"IDLE", "HIGH_CPU">>}]_vars
    /\ [](ENABLED <<Next>>_vars \/ ClockExhausted)
    /\ \A n \in 0..(3 * LiveCycles) :
          (Len(StatusLines) = n) ~> (Len(StatusLines) = n + 1)

\* C6 witness: HIGH_CPU has been entered a third time.
C6_Witness == Phase = "HIGH_CPU" /\ cycle = 3 /\ pc = "work_loop"

\* C7 (on a machine that runs a batch within NominalBatch seconds and wakes
\* from a sleep within MaxJitter seconds): once the clock shows 16 the three status lines of cycle 1 are out and
\* the counter is at least 1; once it shows 35 the counter is at least 2.
C7_EndToEndTiming ==
    /\ now >= 16 =>
          /\ cycle >= 1
          /\ Len(StatusLines) >= 3
          /\ \A i \in 1..3 : StatusLines[i] = StatusLine(1, PhaseOrder[i])
    /\ now >= 35 => cycle >= 2

\* C7 witness: at 35 seconds or later the program is still in its second cycle.
C7_Witness == now >= 35 /\ cycle = 2

\* C8: at least 5 seconds pass between the LOW line and the IDLE line of a
\* cycle, and between the IDLE line and the next cycle's HIGH line, and no
\* batch of busy work runs in either interval.
C8_IdlePhasesLastFive ==
    /\ [](Phase = "IDLE" => idle_at >= low_at + 5)
    /\ [](pc = "high_flush" /\ cycle >= 2 => now >= idle_at + 5)
    /\ [][(pc \in RestPcs) => (batches' = batches /\ ~(pc' \in BusyPcs))]_vars

\* C8 witness: the second HIGH line goes out exactly 5 seconds after the first IDLE line.
C8_Witness == pc = "high_flush" /\ cycle = 2 /\ now = idle_at + 5

\* C10: the i-th status line carries cycle number ((i - 1) div 3) + 1, that is
\* 1,1,1,2,2,2,3,...; the first carries 1; and the number a status line
\* carries is the value of the counter when it is printed.
C10_LinesCarryCounter ==
    /\ [](\A i \in 1..Len(StatusLines) : StatusLines[i].cycle = ((i - 1) \div 3) + 1)
    /\ [][Len(stdout') > Len(stdout) /\ stdout'[Len(stdout')].status
            => (stdout'[Len(stdout')].cycle = cycle /\ cycle' = cycle)]_vars

\* C10 witness: the first line of the third block has been printed.
C10_Witness == Len(StatusLines) = 7 /\ StatusLines[7].cycle = 3

====
